---------------------------- MODULE Spec2Model ----------------------------
(***************************************************************************)
(* Model of the pilosa benchmark tools, package bench:                     *)
(*   bench/query.go   Query, BasicQuery (the runners), QueryGenerator      *)
(*   bench/import.go  Import.Init, GenerateImportCSV                       *)
(*                                                                         *)
(* Four specifications share the module:                                   *)
(*   SpecRun     the Query / BasicQuery runners, one per agent             *)
(*   SpecImport  Import.Init, with the csv generation it calls             *)
(*   SpecCSV     GenerateImportCSV called on its own                       *)
(*   SpecGen     QueryGenerator.Random / RandomBitmapCall                  *)
(* Every draw from math/rand is a nondeterministic choice over the values  *)
(* the call can return; a Go panic is the position "panic".                *)
(***************************************************************************)
EXTENDS Integers, Sequences, FiniteSets, TLC

\* ------------------------------------------------------------------ bounds
MaxAgent == 1      \* agent numbers are 0..MaxAgent
MaxIter == 3       \* Iterations is drawn from 0..MaxIter

Agents == 0 .. MaxAgent

\* The configured (JSON) values of a runner, before Init.
BaseRowIDs == {0, 5}
NumArgsSet == {0, 2}
RunnerKinds == {"query", "basic-query"}
HostLists == {<< >>, <<"host0">>}

VARIABLES
    cfg,       \* the configuration the runners share (the JSON fields)
    runner,    \* runner[a]: the Query / BasicQuery value of agent a and its Run
    calls,     \* calls[a]: what agent a's client was asked to execute, in order
    ctxDone    \* the context passed to Run has been cancelled

runVars == << cfg, runner, calls, ctxDone >>

\* ---------------------------------------------------------------- helpers
Nil == "nil"

\* NewResult(): an empty Result without error.
NewResult == [entries |-> << >>, err |-> Nil]

\* Result.Add(d, resp): appends one measurement.
ResultAdd(res, resp) == [res EXCEPT !.entries = Append(@, [resp |-> resp])]

\* HasClient.Init(hosts, agentNum): <<client, error>>.
HasClientInit(hosts) ==
    IF Len(hosts) = 0 THEN << Nil, "NoHosts" >> ELSE << "client", Nil >>

\* HasClient.ExecuteQuery(ctx, index, query): the errors the client can return.
ExecuteQueryErrs(done) ==
    {Nil, "network"} \cup (IF done THEN {"canceled"} ELSE {})

\* Bitmap leaf of BasicQuery's template; rowID is unset until the loop writes it.
BitmapTemplate == [name |-> "Bitmap", frame |-> "frame", rowID |-> "unset"]

\* ----------------------------------------------------------- runner: Init
\* Query.Init
QueryInit(r, hosts, agentNum) ==
    LET hc == HasClientInit(hosts)
    IN  [r EXCEPT !.Name = "query", !.client = hc[1], !.initErr = hc[2],
                  !.pc = "initialized"]

\* BasicQueryInit with BaseRowID left as configured.
BasicQueryInitNoOffset(r, hosts, agentNum) ==
    LET hc == HasClientInit(hosts)
    IN  [r EXCEPT !.Name = "basic-query", !.client = hc[1], !.initErr = hc[2],
                  !.pc = "initialized"]

\* BasicQuery.Init
BasicQueryInit(r, hosts, agentNum) ==
    LET hc == HasClientInit(hosts)
    IN  [r EXCEPT !.Name = "basic-query",
                  !.BaseRowID = r.BaseRowID + agentNum * r.Iterations,
                  !.client = hc[1], !.initErr = hc[2],
                  !.pc = "initialized"]

RunnerInit(a) ==
    /\ runner[a].pc = "new"
    /\ \E hosts \in HostLists :
         runner' = [runner EXCEPT ![a] =
                      IF cfg.kind = "query" THEN QueryInit(@, hosts, a)
                                            ELSE BasicQueryInit(@, hosts, a)]
    /\ UNCHANGED << cfg, calls, ctxDone >>

\* ------------------------------------------------------------ runner: Run
\* Run up to the first test of the loop condition: the client check, and for
\* BasicQuery the template of NumArgs Bitmap leaves.
RunEnter(r) ==
    IF r.client = Nil
    THEN [r EXCEPT !.results = [NewResult EXCEPT !.err = "NoClient"],
                   !.pc = "returned"]
    ELSE [r EXCEPT !.results = NewResult,
                   !.bms = IF cfg.kind = "basic-query"
                           THEN [i \in 1 .. r.NumArgs |-> BitmapTemplate]
                           ELSE << >>,
                   !.n = 0,
                   !.pc = IF 0 < r.Iterations THEN "loop" ELSE "returned"]

RunStart(a) ==
    /\ runner[a].pc = "initialized"
    /\ runner' = [runner EXCEPT ![a] = RunEnter(@)]
    /\ UNCHANGED << cfg, calls, ctxDone >>

\* The leaves as the loop body of BasicQuery.Run leaves them at iteration n.
SetRowIDs(bms, base, n) ==
    [i \in 1 .. Len(bms) |-> [bms[i] EXCEPT !.rowID = base + n]]

\* After the body of iteration n: n++ and the loop condition.
LoopNext(r, res) ==
    [r EXCEPT !.results = res, !.n = r.n + 1,
              !.pc = IF r.n + 1 < r.Iterations THEN "loop" ELSE "returned"]

\* QueryIter with the error tested before results.Add.
QueryIterErrFirst(r, err) ==
    IF err # Nil
    THEN [r EXCEPT !.results = [r.results EXCEPT !.err =
                       "problem with query #" \o ToString(r.n) \o ": " \o err],
                   !.pc = "returned"]
    ELSE LoopNext(r, ResultAdd(r.results, "response"))

\* One iteration of Query.Run with the client returning err.
QueryIter(r, err) ==
    LET res == ResultAdd(r.results, IF err = Nil THEN "response" ELSE Nil)
    IN  IF err # Nil
        THEN [r EXCEPT !.results = [res EXCEPT !.err =
                           "problem with query #" \o ToString(r.n) \o ": " \o err],
                       !.pc = "returned"]
        ELSE LoopNext(r, res)

\* One iteration of BasicQuery.Run with the client returning err.
BasicQueryIter(r, err) ==
    LET res == ResultAdd(r.results, Nil)
        rr  == [r EXCEPT !.bms = SetRowIDs(r.bms, r.BaseRowID, r.n)]
    IN  IF err # Nil
        THEN [rr EXCEPT !.results = [res EXCEPT !.err = err],
                        !.pc = "returned"]
        ELSE LoopNext(rr, res)

\* The query string an iteration hands to ExecuteQuery.
Submitted(r) ==
    IF cfg.kind = "query"
    THEN [name |-> "Q", children |-> << >>]
    ELSE [name |-> "Q", children |-> SetRowIDs(r.bms, r.BaseRowID, r.n)]

RunIter(a) ==
    /\ runner[a].pc = "loop"
    /\ \E err \in ExecuteQueryErrs(ctxDone) :
         /\ calls' = [calls EXCEPT ![a] =
                        Append(@, [query |-> Submitted(runner[a]),
                                   err |-> err, afterCancel |-> ctxDone])]
         /\ runner' = [runner EXCEPT ![a] =
                         IF cfg.kind = "query" THEN QueryIter(@, err)
                                               ELSE BasicQueryIter(@, err)]
    /\ UNCHANGED << cfg, ctxDone >>

\* The caller cancels the context it gave to Run.
Cancel ==
    /\ ~ctxDone
    /\ ctxDone' = TRUE
    /\ UNCHANGED << cfg, runner, calls >>

RunnerOf(c) ==
    [pc |-> "new", Name |-> "", BaseRowID |-> c.BaseRowID,
     Iterations |-> c.Iterations, NumArgs |-> c.NumArgs,
     client |-> Nil, initErr |-> Nil, n |-> 0, bms |-> << >>,
     results |-> NewResult]

Configs ==
    [kind : RunnerKinds, BaseRowID : BaseRowIDs, Iterations : 0 .. MaxIter,
     NumArgs : NumArgsSet]

RunInit ==
    /\ cfg \in Configs
    /\ runner = [a \in Agents |-> RunnerOf(cfg)]
    /\ calls = [a \in Agents |-> << >>]
    /\ ctxDone = FALSE


\* =================================================================
\* bench/import.go
\* =================================================================
MaxWidth == 2      \* maxBitmapID - baseBitmapID is drawn from -1..MaxWidth
MaxBits == 3       \* maxBitsPerMap is drawn up to MaxBits

BitmapRanges == {<< lo, lo + w >> : lo \in {0, 1}, w \in -1 .. MaxWidth}
ProfileRanges == {<< 0, 2 >>, << 1, 3 >>, << 1, 1 >>}
BitsRanges == {<< 0, MaxBits >>, << 1, 2 >>, << 1, 1 >>, << -1, 1 >>, << -2, -1 >>}
ControlModes == {"height", "width", "", "bogus"}

VARIABLES
    imp,    \* the Import value, the Init call on it and Init's arguments
    gen     \* the activation of GenerateImportCSV: arguments, locals, sink

impVars == << imp, gen >>

\* sort.Sort on an Int64Slice: ascending by Less.
RECURSIVE Insert(_, _)
Insert(x, s) ==
    IF s = << >> THEN << x >>
    ELSE IF x <= Head(s) THEN << x >> \o s
    ELSE << Head(s) >> \o Insert(x, Tail(s))

RECURSIVE SortAsc(_)
SortAsc(s) == IF s = << >> THEN << >> ELSE Insert(Head(s), SortAsc(Tail(s)))

\* rng.Perm(n) for n >= 0: the permutations of 0..n-1, as sequences.
Perms(n) ==
    {p \in [1 .. n -> 0 .. n - 1] : \A i, j \in 1 .. n : i # j => p[i] # p[j]}

\* rng.Int63n(n) for n > 0 (it panics for n <= 0).
Int63n(n) == 0 .. n - 1

\* GenerateImportCSV is not running.
GenIdle == [pc |-> "idle"]

\* The call GenerateImportCSV(w, ...): the activation at the function's entry.
\* rows is what has been written to w, visited the bitmap id of each group.
\* The seed only fixes which of the possible draws rng makes, and every
\* possible draw is explored, so the activation does not carry it.
GenEnter(bb, mb, bp, mp, minb, maxb, ro) ==
    [pc |-> "enter", baseBitmapID |-> bb, maxBitmapID |-> mb,
     baseProfileID |-> bp, maxProfileID |-> mp, minBitsPerMap |-> minb,
     maxBitsPerMap |-> maxb, randomOrder |-> ro, bitmapIDs |-> << >>,
     i |-> 0, numrows |-> 0, visited |-> << >>, rows |-> << >>, ret |-> 0]

\* The test of the outer loop's condition, and the return once it fails.
GenLoopTest(c) ==
    IF c.i < c.maxBitmapID THEN [c EXCEPT !.pc = "loop"]
    ELSE [c EXCEPT !.pc = "returned", !.ret = c.numrows]

\* GenerateImportCSV from its entry to the first test of the loop condition.
\* perm is the value rng.Perm returns. make panics on a negative length.
GenPrologue(c, perm) ==
    IF (c.randomOrder /\ c.maxBitmapID - c.baseBitmapID < 0) \/ c.maxBitsPerMap < 0
    THEN [c EXCEPT !.pc = "panic"]
    ELSE GenLoopTest([c EXCEPT !.bitmapIDs = perm, !.numrows = 0,
                               !.i = c.baseBitmapID])

GenStart ==
    /\ gen.pc = "enter"
    /\ \E perm \in (IF gen.randomOrder
                    THEN Perms(IF gen.maxBitmapID > gen.baseBitmapID
                               THEN gen.maxBitmapID - gen.baseBitmapID ELSE 0)
                    ELSE {<< >>}) :
         gen' = GenPrologue(gen, perm)
    /\ UNCHANGED imp

\* The bitmap id of the row-group of loop index i.
GroupBitmapID(c) ==
    IF c.randomOrder THEN c.bitmapIDs[c.i - c.baseBitmapID + 1] ELSE c.i

\* EmitOrder without the sort.
EmitOrderUnsorted(ids, randomOrder) == ids

\* The order a group's profile ids are written in.
EmitOrder(ids, randomOrder) == IF ~randomOrder THEN SortAsc(ids) ELSE ids

\* One iteration of the outer loop with numBitsToSet = nb and the profile
\* ids drawn = ids (the slice profileIDs[:numBitsToSet], wholly overwritten).
GenBody(c, nb, ids) ==
    LET bm == GroupBitmapID(c)
        out == EmitOrder(ids, c.randomOrder)
    IN  GenLoopTest([c EXCEPT
            !.numrows = c.numrows + nb,
            !.visited = Append(@, bm),
            !.rows = @ \o [j \in 1 .. nb |-> << bm, out[j] >>],
            !.i = c.i + 1])

GenGroup ==
    /\ gen.pc = "loop"
    /\ IF gen.maxBitsPerMap - gen.minBitsPerMap <= 0
       THEN gen' = [gen EXCEPT !.pc = "panic"]
       ELSE \E r \in Int63n(gen.maxBitsPerMap - gen.minBitsPerMap) :
              LET nb == r + gen.minBitsPerMap
              IN  IF (nb > 0 /\ gen.maxProfileID - gen.baseProfileID <= 0) \/ nb < 0
                  THEN gen' = [gen EXCEPT !.pc = "panic",
                                          !.numrows = gen.numrows + nb]
                  ELSE \E ids \in [1 .. nb ->
                                     {d + gen.baseProfileID :
                                        d \in Int63n(gen.maxProfileID - gen.baseProfileID)}] :
                         gen' = GenBody(gen, nb, ids)
    /\ UNCHANGED imp

\* ------------------------------------------------------------ Import.Init
ImportOf(bm, pr, bits, ro, mode) ==
    [pc |-> "new", Name |-> "", Host |-> "", BaseBitmapID |-> bm[1],
     MaxBitmapID |-> bm[2], BaseProfileID |-> pr[1], MaxProfileID |-> pr[2],
     MinBitsPerMap |-> bits[1], MaxBitsPerMap |-> bits[2],
     RandomBitmapOrder |-> ro, AgentControls |-> mode, Seed |-> 0,
     numbits |-> 0, Paths |-> << >>, err |-> Nil]

\* InitPartition with the ranges shifted by agentNum instead of by
\* agentNum times the width.
InitPartitionShiftByAgent(b, hosts, agentNum) ==
    IF Len(hosts) = 0 THEN [b EXCEPT !.err = "NeedHost"]
    ELSE
      LET b1 == [b EXCEPT !.Name = "import", !.Host = hosts[1],
                          !.Seed = b.Seed + agentNum]
          numBitmapIDs == b1.MaxBitmapID - b1.BaseBitmapID
          numProfileIDs == b1.MaxProfileID - b1.BaseProfileID
      IN  CASE b1.AgentControls = "height" ->
                 [b1 EXCEPT !.BaseBitmapID = b1.BaseBitmapID + agentNum,
                            !.MaxBitmapID = b1.BaseBitmapID + agentNum + numBitmapIDs]
            [] b1.AgentControls = "width" ->
                 [b1 EXCEPT !.BaseProfileID = b1.BaseProfileID + agentNum,
                            !.MaxProfileID = b1.BaseProfileID + agentNum + numProfileIDs]
            [] b1.AgentControls = "" -> b1
            [] OTHER -> [b1 EXCEPT !.err = "NotSupported"]

\* InitPartition with an unknown AgentControls taken as "".
InitPartitionAnyMode(b, hosts, agentNum) ==
    IF Len(hosts) = 0 THEN [b EXCEPT !.err = "NeedHost"]
    ELSE
      LET b1 == [b EXCEPT !.Name = "import", !.Host = hosts[1],
                          !.Seed = b.Seed + agentNum]
          numBitmapIDs == b1.MaxBitmapID - b1.BaseBitmapID
          numProfileIDs == b1.MaxProfileID - b1.BaseProfileID
      IN  CASE b1.AgentControls = "height" ->
                 [b1 EXCEPT !.BaseBitmapID = b1.BaseBitmapID + numBitmapIDs * agentNum,
                            !.MaxBitmapID = b1.BaseBitmapID + numBitmapIDs * agentNum
                                            + numBitmapIDs]
            [] b1.AgentControls = "width" ->
                 [b1 EXCEPT !.BaseProfileID = b1.BaseProfileID + numProfileIDs * agentNum,
                            !.MaxProfileID = b1.BaseProfileID + numProfileIDs * agentNum
                                             + numProfileIDs]
            [] OTHER -> b1

\* Init up to the switch on AgentControls: the host check, Name, Host, Seed and
\* the agent's id ranges. err is set when Init returns there.
InitPartition(b, hosts, agentNum) ==
    IF Len(hosts) = 0 THEN [b EXCEPT !.err = "NeedHost"]
    ELSE
      LET b1 == [b EXCEPT !.Name = "import", !.Host = hosts[1],
                          !.Seed = b.Seed + agentNum]
          numBitmapIDs == b1.MaxBitmapID - b1.BaseBitmapID
          numProfileIDs == b1.MaxProfileID - b1.BaseProfileID
      IN  CASE b1.AgentControls = "height" ->
                 [b1 EXCEPT !.BaseBitmapID = b1.BaseBitmapID + numBitmapIDs * agentNum,
                            !.MaxBitmapID = b1.BaseBitmapID + numBitmapIDs * agentNum
                                            + numBitmapIDs]
            [] b1.AgentControls = "width" ->
                 [b1 EXCEPT !.BaseProfileID = b1.BaseProfileID + numProfileIDs * agentNum,
                            !.MaxProfileID = b1.BaseProfileID + numProfileIDs * agentNum
                                             + numProfileIDs]
            [] b1.AgentControls = "" -> b1
            [] OTHER -> [b1 EXCEPT !.err = "NotSupported"]

\* The call Init(hosts, agentNum) down to the call of GenerateImportCSV.
\* tmpErr is what ioutil.TempFile returns.
ImportInit ==
    /\ imp.b.pc = "new"
    /\ \E hosts \in HostLists, agentNum \in Agents, tmpErr \in {Nil, "TempFile"} :
         LET b1 == InitPartition(imp.b, hosts, agentNum)
         IN  /\ imp' = [imp EXCEPT
                          !.hosts = hosts, !.agentNum = agentNum,
                          !.b = IF b1.err # Nil THEN [b1 EXCEPT !.pc = "returned"]
                                ELSE IF tmpErr # Nil
                                THEN [b1 EXCEPT !.pc = "returned", !.err = tmpErr]
                                ELSE [b1 EXCEPT !.pc = "generating"]]
             /\ gen' = IF b1.err # Nil \/ tmpErr # Nil THEN gen
                       ELSE GenEnter(b1.BaseBitmapID, b1.MaxBitmapID,
                                     b1.BaseProfileID, b1.MaxProfileID,
                                     b1.MinBitsPerMap, b1.MaxBitsPerMap,
                                     b1.RandomBitmapOrder)

\* Init after GenerateImportCSV: numbits, Paths and the result of f.Close().
\* A panic of the callee unwinds Init.
InitFinish(b, c, closeErr) ==
    IF c.pc = "panic" THEN [b EXCEPT !.pc = "panic"]
    ELSE [b EXCEPT !.numbits = c.ret, !.Paths = << "tmpfile" >>,
                   !.err = closeErr, !.pc = "returned"]

ImportInitResume ==
    /\ imp.b.pc = "generating"
    /\ gen.pc \in {"returned", "panic"}
    /\ \E closeErr \in {Nil, "Close"} :
         imp' = [imp EXCEPT !.b = InitFinish(@, gen, closeErr)]
    /\ UNCHANGED gen

\* The Import values of SpecImport: small draws, so that Init's own cases
\* (hosts, modes, agent numbers, both ranges) are all covered.
ImportConfigs ==
    {ImportOf(bm, pr, << 0, 2 >>, ro, mode) :
        bm \in BitmapRanges, pr \in ProfileRanges, ro \in BOOLEAN,
        mode \in ControlModes}

\* There is no Import value.
ImportIdle == [b |-> [pc |-> "none"]]

\* =================================================================
\* bench/query.go: QueryGenerator
\* =================================================================
\* Go's int64 and uint64 are modelled IntBits wide, two's complement: the
\* conversions and the arithmetic of RandomBitmapCall wrap as Go's do.
IntBits == 3

VARIABLE qg    \* one call of a QueryGenerator method: arguments and result

TwoTo(k) == 2 ^ k
Uint64s == 0 .. TwoTo(IntBits) - 1

\* int64(u) of a uint64, and the wrap of int64 arithmetic.
ToInt64(x) ==
    LET m == x % TwoTo(IntBits)
    IN  IF m >= TwoTo(IntBits - 1) THEN m - TwoTo(IntBits) ELSE m

\* uint64(i) of an int64.
ToUint64(i) == i % TwoTo(IntBits)

\* QueryGenerator.IDToFrameFn as NewQueryGenerator sets it.
IDToFrameFn(id) == "fbench"

\* QueryGenerator.Frames as NewQueryGenerator sets it.
Frames == << "fbench" >>

\* R.Intn(n) for n > 0 (it panics for n <= 0).
Intn(n) == 0 .. n - 1

NoCall == [name |-> "", frame |-> "", rowID |-> -1, n |-> -1, children |-> << >>]

\* Bitmap(id, frame)
Bitmap(id, frame) == [NoCall EXCEPT !.name = "Bitmap", !.rowID = id, !.frame = frame]

\* Difference, Intersect, Union
SetOp(name, bms) == [NoCall EXCEPT !.name = name, !.children = bms]

\* What a call comes to: a panic, or the *pql.Call returned.
Panicked == [panic |-> TRUE, call |-> NoCall]
Returned(c) == [panic |-> FALSE, call |-> c]

\* TerminalBitmap with the draw not offset by idmin.
TerminalBitmapNoOffset(idmin, idmax) ==
    LET n == ToInt64(ToInt64(idmax) - ToInt64(idmin))
    IN  IF n <= 0 THEN {Panicked}
        ELSE {Returned(Bitmap(ToUint64(r), IDToFrameFn(ToUint64(r)))) :
                 r \in Int63n(n)}

\* The terminal case of RandomBitmapCall (depth <= 1): every outcome.
TerminalBitmap(idmin, idmax) ==
    LET n == ToInt64(ToInt64(idmax) - ToInt64(idmin))
    IN  IF n <= 0 THEN {Panicked}
        ELSE {Returned(Bitmap(ToUint64(ToInt64(r + ToInt64(idmin))),
                              IDToFrameFn(ToUint64(ToInt64(r + ToInt64(idmin)))))) :
                 r \in Int63n(n)}

\* numargs of the recursive case.
NumArgsOf(maxargs) ==
    IF maxargs <= 2 THEN {2} ELSE {r + 2 : r \in Intn(maxargs - 2)}

\* QueryGenerator.RandomBitmapCall: every outcome.
RECURSIVE RandomBitmapCall(_, _, _, _)
RandomBitmapCall(depth, maxargs, idmin, idmax) ==
    IF depth <= 1 THEN TerminalBitmap(idmin, idmax)
    ELSE
      LET sub == RandomBitmapCall(depth - 1, maxargs, idmin, idmax)
          ok == {x.call : x \in {y \in sub : ~y.panic}}
          argss == UNION {[1 .. k -> ok] : k \in NumArgsOf(maxargs)}
      IN  RandomBitmapCall(1, 0, idmin, idmax)
          \cup (IF Panicked \in sub THEN {Panicked} ELSE {})
          \cup {Returned(SetOp(name, a)) :
                   name \in {"Difference", "Intersect", "Union"}, a \in argss}

\* QueryGenerator.RandomTopN: every outcome.
RandomTopN(maxN, depth, maxargs, idmin, idmax) ==
    LET sub == RandomBitmapCall(depth, maxargs, idmin, idmax)
    IN  IF maxN - 1 <= 0 THEN {Panicked}
        ELSE (IF Panicked \in sub THEN {Panicked} ELSE {})
             \cup {Returned([NoCall EXCEPT !.name = "TopN",
                                           !.frame = Frames[frameIdx + 1],
                                           !.n = r + 1,
                                           !.children = << x.call >>]) :
                      frameIdx \in Intn(Len(Frames)), r \in Intn(maxN - 1),
                      x \in {y \in sub : ~y.panic}}

\* QueryGenerator.Random: every outcome.
Random(maxN, depth, maxargs, idmin, idmax) ==
    UNION {IF val = 0 THEN RandomTopN(maxN, depth, maxargs, idmin, idmax)
                      ELSE RandomBitmapCall(depth, maxargs, idmin, idmax) :
             val \in Intn(5)}

MaxNs == {1, 3}
Depths == {-1, 0, 1, 2}
MaxArgss == {0, 4}

\* No QueryGenerator method is called.
QGIdle == [pc |-> "none"]

\* The call of method fn, before its first draw.
QGCall(fn, maxN, depth, maxargs, idmin, idmax) ==
    [pc |-> "called", fn |-> fn, maxN |-> maxN, depth |-> depth,
     maxargs |-> maxargs, idmin |-> idmin, idmax |-> idmax, result |-> Panicked]

CallRandom ==
    /\ qg.pc = "called"
    /\ qg.fn = "Random"
    /\ \E res \in Random(qg.maxN, qg.depth, qg.maxargs, qg.idmin, qg.idmax) :
         qg' = [qg EXCEPT !.pc = "returned", !.result = res]

CallRandomBitmapCall ==
    /\ qg.pc = "called"
    /\ qg.fn = "RandomBitmapCall"
    /\ \E res \in RandomBitmapCall(qg.depth, qg.maxargs, qg.idmin, qg.idmax) :
         qg' = [qg EXCEPT !.pc = "returned", !.result = res]

vars == << cfg, runner, calls, ctxDone, imp, gen, qg >>

\* There are no runners.
RunIdle ==
    /\ cfg = [kind |-> "none"]
    /\ runner = << >>
    /\ calls = << >>
    /\ ctxDone = FALSE

ImportInitial ==
    /\ RunIdle
    /\ qg = QGIdle
    /\ \E b \in ImportConfigs :
         imp = [b |-> b, cfg0 |-> b, hosts |-> << >>, agentNum |-> 0]
    /\ gen = GenIdle

ImportNext ==
    \/ ImportInit /\ UNCHANGED << runVars, qg >>
    \/ GenStart /\ UNCHANGED << runVars, qg >>
    \/ GenGroup /\ UNCHANGED << runVars, qg >>
    \/ ImportInitResume /\ UNCHANGED << runVars, qg >>

SpecImport == ImportInitial /\ [][ImportNext]_vars

CSVInitial ==
    /\ RunIdle
    /\ qg = QGIdle
    /\ imp = ImportIdle
    /\ \E bm \in BitmapRanges, pr \in ProfileRanges, bits \in BitsRanges,
          ro \in BOOLEAN :
         gen = GenEnter(bm[1], bm[2], pr[1], pr[2], bits[1], bits[2], ro)

CSVNext ==
    \/ GenStart /\ UNCHANGED << runVars, qg >>
    \/ GenGroup /\ UNCHANGED << runVars, qg >>

SpecCSV == CSVInitial /\ [][CSVNext]_vars


RunInitial ==
    /\ RunInit
    /\ imp = ImportIdle
    /\ gen = GenIdle
    /\ qg = QGIdle

RunNext ==
    \/ \E a \in Agents : RunnerInit(a) /\ UNCHANGED << impVars, qg >>
    \/ \E a \in Agents : RunStart(a) /\ UNCHANGED << impVars, qg >>
    \/ \E a \in Agents : RunIter(a) /\ UNCHANGED << impVars, qg >>
    \/ Cancel /\ UNCHANGED << impVars, qg >>

SpecRun == RunInitial /\ [][RunNext]_vars

GenInitial ==
    /\ RunIdle
    /\ imp = ImportIdle
    /\ gen = GenIdle
    /\ \E fn \in {"Random", "RandomBitmapCall"}, maxN \in MaxNs, depth \in Depths,
          maxargs \in MaxArgss, idmin \in Uint64s, idmax \in Uint64s :
         qg = QGCall(fn, maxN, depth, maxargs, idmin, idmax)

GenNext ==
    \/ CallRandom /\ UNCHANGED << runVars, impVars >>
    \/ CallRandomBitmapCall /\ UNCHANGED << runVars, impVars >>

SpecGen == GenInitial /\ [][GenNext]_vars

\* =================================================================
\* Properties
\* =================================================================
Entries(a) == runner[a].results.entries
LastCall(a) == calls[a][Len(calls[a])]
FailedCall(a) == calls[a] # << >> /\ LastCall(a).err # Nil

\* C1 (as stated): when the client succeeds on calls 1..k-1 and fails on call
\* k, Run returns a Result with exactly k-1 measurements and a non-nil error.
C1_FailureDropsMeasurement ==
    \A a \in Agents :
        (runner[a].pc = "returned" /\ FailedCall(a)) =>
            /\ Len(Entries(a)) = Len(calls[a]) - 1
            /\ runner[a].results.err # Nil

\* C1 (amended): when the client succeeds on calls 1..k-1 and fails on call k,
\* Run returns a Result with exactly k measurements (the failing iteration's
\* included) and a non-nil error, and no call follows the failing one.
C1_FailureKeepsMeasurement ==
    \A a \in Agents :
        /\ \A i \in 1 .. Len(calls[a]) - 1 : calls[a][i].err = Nil
        /\ FailedCall(a) =>
              /\ runner[a].pc = "returned"
              /\ Len(Entries(a)) = Len(calls[a])
              /\ runner[a].results.err # Nil

\* A run whose third call failed: three measurements and the error.
C1_Witness ==
    \E a \in Agents :
        /\ runner[a].pc = "returned"
        /\ Len(calls[a]) = 3
        /\ FailedCall(a)
        /\ Len(Entries(a)) = 3
        /\ runner[a].results.err # Nil

\* C2: once the cancellation signal has fired, Run starts no further
\* iteration: no call reaches the client after the cancellation.
C2_NoSubmissionAfterCancel ==
    \A a \in Agents : \A i \in 1 .. Len(calls[a]) : ~calls[a][i].afterCancel

\* The row ids of the leaves of agent a's i-th submitted query.
LeafRowIDs(a, i) ==
    {calls[a][i].query.children[j].rowID :
        j \in 1 .. Len(calls[a][i].query.children)}

\* C10: in BasicQuery the query of iteration n has exactly NumArgs Bitmap
\* leaves, each with rowID = configured base + agentNum * Iterations + n; a
\* run that completes has submitted exactly Iterations queries, and two agents
\* never submit the same row id.
C10_RowIDsPerAgent ==
    cfg.kind = "basic-query" =>
        /\ \A a \in Agents : \A i \in 1 .. Len(calls[a]) :
              LET q == calls[a][i].query
              IN  /\ Len(q.children) = cfg.NumArgs
                  /\ \A j \in 1 .. Len(q.children) :
                        /\ q.children[j].name = "Bitmap"
                        /\ q.children[j].rowID =
                              cfg.BaseRowID + a * cfg.Iterations + (i - 1)
        /\ \A a \in Agents :
              (runner[a].pc = "returned" /\ runner[a].results.err = Nil) =>
                  Len(calls[a]) = cfg.Iterations
        /\ \A a1, a2 \in Agents : \A i1 \in 1 .. Len(calls[a1]) :
              \A i2 \in 1 .. Len(calls[a2]) :
                  a1 # a2 => LeafRowIDs(a1, i1) \cap LeafRowIDs(a2, i2) = {}

\* Two agents that both completed three iterations with two leaves per query.
C10_Witness ==
    /\ cfg.kind = "basic-query"
    /\ cfg.Iterations = 3
    /\ cfg.NumArgs = 2
    /\ cfg.BaseRowID = 5
    /\ \A a \in {0, 1} :
          /\ runner[a].pc = "returned"
          /\ runner[a].results.err = Nil
          /\ Len(calls[a]) = 3
    /\ LeafRowIDs(1, 3) = {10}

ValidModes == {"height", "width", ""}
InitCalled == imp.b.pc \in {"generating", "returned", "panic"}
Disjoint(lo1, hi1, lo2, hi2) == hi1 <= lo2 \/ hi2 <= lo1
OtherAgents == (0 .. MaxAgent + 1) \ {imp.agentNum}

\* C3: for Init on runners sharing one configuration: in mode "height" agent a
\* gets the bitmap-id range [base + a*w, base + (a+1)*w), w = max - base > 0,
\* disjoint from and as wide as any other agent's, the profile-id range
\* unchanged; in mode "width" the same for the profile-id range; in mode ""
\* both ranges are unchanged and agents differ only by Seed = seed + agentNum.
C3_AgentPartition ==
    (InitCalled /\ imp.hosts # << >> /\ imp.cfg0.AgentControls \in ValidModes) =>
        LET c == imp.cfg0
            b == imp.b
            a == imp.agentNum
            wb == c.MaxBitmapID - c.BaseBitmapID
            wp == c.MaxProfileID - c.BaseProfileID
        IN  /\ b.Seed = c.Seed + a
            /\ (c.AgentControls = "height" /\ wb > 0) =>
                  /\ b.BaseBitmapID = c.BaseBitmapID + a * wb
                  /\ b.MaxBitmapID = c.BaseBitmapID + (a + 1) * wb
                  /\ b.BaseProfileID = c.BaseProfileID
                  /\ b.MaxProfileID = c.MaxProfileID
                  /\ \A a2 \in OtherAgents :
                        LET o == InitPartition(c, imp.hosts, a2)
                        IN  /\ o.MaxBitmapID - o.BaseBitmapID = wb
                            /\ Disjoint(o.BaseBitmapID, o.MaxBitmapID,
                                        b.BaseBitmapID, b.MaxBitmapID)
            /\ (c.AgentControls = "width" /\ wp > 0) =>
                  /\ b.BaseProfileID = c.BaseProfileID + a * wp
                  /\ b.MaxProfileID = c.BaseProfileID + (a + 1) * wp
                  /\ b.BaseBitmapID = c.BaseBitmapID
                  /\ b.MaxBitmapID = c.MaxBitmapID
                  /\ \A a2 \in OtherAgents :
                        LET o == InitPartition(c, imp.hosts, a2)
                        IN  /\ o.MaxProfileID - o.BaseProfileID = wp
                            /\ Disjoint(o.BaseProfileID, o.MaxProfileID,
                                        b.BaseProfileID, b.MaxProfileID)
            /\ c.AgentControls = "" =>
                  /\ b.BaseBitmapID = c.BaseBitmapID
                  /\ b.MaxBitmapID = c.MaxBitmapID
                  /\ b.BaseProfileID = c.BaseProfileID
                  /\ b.MaxProfileID = c.MaxProfileID
                  /\ \A a2 \in OtherAgents :
                        LET o == InitPartition(c, imp.hosts, a2)
                        IN  /\ o.Seed = c.Seed + a2
                            /\ o.Seed # b.Seed
                            /\ [o EXCEPT !.Seed = b.Seed] =
                                  [b EXCEPT !.pc = "new", !.numbits = 0,
                                            !.Paths = << >>, !.err = Nil]

\* Agent 1 in mode "height" on the configured range [1, 3): it holds [3, 5).
C3_Witness ==
    /\ imp.b.pc = "returned"
    /\ imp.b.err = Nil
    /\ imp.cfg0.AgentControls = "height"
    /\ imp.agentNum = 1
    /\ imp.cfg0.BaseBitmapID = 1
    /\ imp.cfg0.MaxBitmapID = 3
    /\ imp.b.BaseBitmapID = 3
    /\ imp.b.MaxBitmapID = 5

\* C4: Init with an empty host list, or with an AgentControls other than
\* "height", "width" or "", returns a configuration error before any work:
\* GenerateImportCSV is not called, numbits and Paths are not set.
C4_ConfigurationError ==
    (imp.b.pc # "new"
       /\ (imp.hosts = << >> \/ imp.cfg0.AgentControls \notin ValidModes)) =>
        /\ imp.b.pc = "returned"
        /\ imp.b.err = (IF imp.hosts = << >> THEN "NeedHost" ELSE "NotSupported")
        /\ gen.pc = "idle"
        /\ imp.b.numbits = 0
        /\ imp.b.Paths = << >>

\* Init with a host and agent-controls "bogus" has returned its error.
C4_Witness ==
    /\ imp.b.pc = "returned"
    /\ imp.hosts # << >>
    /\ imp.cfg0.AgentControls = "bogus"
    /\ imp.b.err = "NotSupported"
    /\ gen.pc = "idle"

RowIndex == 1 .. Len(gen.rows)

\* C5: with randomOrder and baseBitmapID < maxBitmapID the bitmap ids visited,
\* one per row-group, are a permutation of [baseBitmapID, maxBitmapID), and
\* every emitted row has its bitmap id in that range.
C5_RandomOrderPermutation ==
    (gen.pc # "idle" /\ gen.randomOrder /\ gen.baseBitmapID < gen.maxBitmapID) =>
        /\ \A k \in RowIndex :
              gen.baseBitmapID <= gen.rows[k][1] /\ gen.rows[k][1] < gen.maxBitmapID
        /\ \A k1, k2 \in 1 .. Len(gen.visited) :
              k1 # k2 => gen.visited[k1] # gen.visited[k2]
        /\ gen.pc = "returned" =>
              {gen.visited[k] : k \in 1 .. Len(gen.visited)} =
                  gen.baseBitmapID .. gen.maxBitmapID - 1

\* C6: with randomOrder = false the groups appear in the order baseBitmapID,
\* baseBitmapID + 1, ..., the bitmap ids of the rows are non-decreasing, the
\* profile ids within a group are non-decreasing, and every profile id is in
\* [baseProfileID, maxProfileID).
C6_SortedOutput ==
    (gen.pc # "idle" /\ ~gen.randomOrder) =>
        /\ \A k \in 1 .. Len(gen.visited) : gen.visited[k] = gen.baseBitmapID + k - 1
        /\ \A k \in RowIndex :
              /\ \E v \in 1 .. Len(gen.visited) : gen.visited[v] = gen.rows[k][1]
              /\ gen.baseProfileID <= gen.rows[k][2]
              /\ gen.rows[k][2] < gen.maxProfileID
        /\ \A k \in 1 .. Len(gen.rows) - 1 :
              /\ gen.rows[k][1] <= gen.rows[k + 1][1]
              /\ gen.rows[k][1] = gen.rows[k + 1][1] =>
                    gen.rows[k][2] <= gen.rows[k + 1][2]

\* A finished ordered generation with two groups, one holding two different
\* profile ids.
C6_Witness ==
    /\ gen.pc = "returned"
    /\ ~gen.randomOrder
    /\ gen.baseBitmapID = 1
    /\ gen.baseProfileID = 1
    /\ \E k \in 1 .. Len(gen.rows) - 1 :
          /\ gen.rows[k][1] = gen.rows[k + 1][1]
          /\ gen.rows[k][2] < gen.rows[k + 1][2]
    /\ \E k1, k2 \in RowIndex : gen.rows[k1][1] # gen.rows[k2][1]

\* C7: GenerateImportCSV raises no error: with maxBitmapID <= baseBitmapID, for
\* either randomOrder, it terminates normally, emits no row and returns 0.
\* (Stated for bits-per-map bounds that are themselves well formed.)
C7_EmptyRangeNoFailure ==
    (gen.pc \notin {"idle", "enter"} /\ gen.maxBitmapID <= gen.baseBitmapID
       /\ 0 <= gen.minBitsPerMap /\ gen.minBitsPerMap < gen.maxBitsPerMap) =>
        /\ gen.pc = "returned"
        /\ gen.rows = << >>
        /\ gen.ret = 0

\* C8: Random called with depth <= 1 returns a Bitmap leaf, never a TopN or a
\* set operation, whatever the random draws.
C8_RandomShallowIsBitmap ==
    (qg.pc = "returned" /\ qg.fn = "Random" /\ qg.depth <= 1
       /\ qg.idmin <= qg.idmax /\ ~qg.result.panic) =>
        /\ qg.result.call.name = "Bitmap"
        /\ qg.result.call.children = << >>

InRange(res) ==
    /\ ~res.panic
    /\ res.call.name = "Bitmap"
    /\ res.call.children = << >>
    /\ qg.idmin <= res.call.rowID
    /\ res.call.rowID < qg.idmax

ShallowBitmapCall ==
    qg.pc = "returned" /\ qg.fn = "RandomBitmapCall" /\ qg.depth <= 1

\* C9 (as stated): for all idMin <= idMax, idMin = idMax included, and all
\* depth <= 1, RandomBitmapCall returns normally a childless Bitmap node with
\* rowID in [idMin, idMax).
C9_BitmapInRangeIncludingEmpty ==
    (ShallowBitmapCall /\ qg.idmin <= qg.idmax) => InRange(qg.result)

\* C9 (amended): for all idMin < idMax with idMax - idMin below 2^63 (here
\* 2^(IntBits-1)) and all depth <= 1, RandomBitmapCall returns normally a
\* childless Bitmap node with rowID in [idMin, idMax); with idMin = idMax, or
\* idMax - idMin of 2^63 or more, it panics.
C9_BitmapInRange ==
    ShallowBitmapCall =>
        IF qg.idmin < qg.idmax /\ qg.idmax - qg.idmin < TwoTo(IntBits - 1)
        THEN InRange(qg.result)
        ELSE qg.idmin <= qg.idmax => qg.result.panic

\* A leaf drawn from a range that crosses the int64 sign boundary.
C9_Witness ==
    /\ ShallowBitmapCall
    /\ qg.depth = 0
    /\ qg.idmin < TwoTo(IntBits - 1)
    /\ qg.idmin + 1 < qg.idmax
    /\ InRange(qg.result)
    /\ qg.result.call.rowID >= TwoTo(IntBits - 1)

=============================================================================
